---- MODULE Spec2Model ----
(***************************************************************************)
(* Model of the real-time market-data core of the puglies desktop client:  *)
(* the order-book store (src/stores/orderbook.ts), the provider callbacks  *)
(* that feed it (src/components/providers/WebSocketProvider.tsx), the SSE  *)
(* event subscriber (web-adapter) and the market page's connect effect.    *)
(*                                                                         *)
(* Numbers are kept in hundredths so that the decimal strings of the wire  *)
(* format ("0.49", "0.5", "100") parse to integers.                        *)
(***************************************************************************)
EXTENDS Integers, Sequences, FiniteSets, TLC

\* ------------------------------------------------------------------ bounds
\* Largest number of actions of the auth store in flight at one time.
MaxAuthCalls == 2
\* Largest number of store commands in flight at once.
MaxCalls == 4
\* Largest number of actions of the trading store in flight at one time.
MaxTradingCalls == 2
\* Largest number of failed connection attempts of a feed since it last was
\* Connected.
MaxAttempts == 7
\* Largest number of price levels held in the store, in the specifications
\* of the event path and of the market page.
MaxEventLevels == 1
\* Largest number of effect runs of the component using useBackendEvent.
MaxEffects == 2
\* Largest number of getBackend / getEventSubscriber calls awaiting the import
\* of the adapter module at one time.
MaxGetters == 3
\* Largest number of subscribe / subscribeMany calls made on the subscribers.
MaxHandles == 2
\* Largest number of renders of the component using useBackendEvent, each
\* passing a new callback.
MaxRenders == 3
\* Largest number of price levels held in the whole store, in the
\* single-instrument specification of the ladder algorithm.
MaxLevels == 3
\* The same, in the two-instrument specification of the store.
MaxStoreLevels == 2
\* Largest timestamp / clock reading (milliseconds, abstracted).
MaxTime == 2

\* --------------------------------------------------------------- JS values
\* The value of a field that is missing from a payload.
UNDEFINED == "undefined"
\* The result of parsing something that is not a number.
NaN == -1

AssetIds == {"a1", "a2"}
\* The markets a page may show, and the token ids of their outcomes.
MarketIds == {"m1", "m2"}
tokenIds(m) == IF m = "m1" THEN {"a1"} ELSE {"a2"}
\* Nothing was handed to the backend for a feed yet.
NoCommand == [cmd |-> "none", tokens |-> {}]
\* No store command has settled yet.
NoSettled == [cmd |-> "none", feed |-> "none", promise |-> "none"]
\* The two feeds and the values of ConnectionStateValue.
Feeds == {"clob", "rtds"}
ConnectionStateValues ==
    {"disconnected", "connecting", "connected", "reconnecting", "failed"}
\* A feed before anybody asked for it.
NewFeed ==
    [state |-> "disconnected", attempt |-> 0, failures |-> 0, delay |-> 0,
     interest |-> {}, subscribed |-> {}, command |-> [kind |-> "none", ids |-> {}]]
Sides == {"BUY", "SELL"}
PriceStrings == {"0.49", "0.50", "0.5", "0.51"}
\* The sizes a delta may carry; "100" enters the ladders with the snapshots.
SizeStrings == {"0.0", "30"}
Times == 1..MaxTime
\* timestamp?: number  -- 0 stands for an absent (or zero) timestamp: falsy.
Timestamps == {0} \cup Times

\* parseFloat on the strings of the model, in hundredths.
parseFloat(s) ==
    CASE s = "0.49" -> 49
      [] s = "0.50" -> 50
      [] s = "0.5"  -> 50
      [] s = "0.51" -> 51
      [] s = "0"    -> 0
      [] s = "0.0"  -> 0
      [] s = "30"   -> 3000
      [] s = "100"  -> 10000
      [] OTHER      -> NaN

\* JS comparisons of numbers: every comparison with NaN is false.
NumEq(x, y) == x # NaN /\ y # NaN /\ x = y
NumGt(x, y) == x # NaN /\ y # NaN /\ x > y
NumLt(x, y) == x # NaN /\ y # NaN /\ x < y

\* `ts || Date.now()`
OrNow(ts, now) == IF ts = 0 THEN now ELSE ts

\* The readings Date.now() may give in `ts || Date.now()`: the clock is read
\* only when ts is falsy (0 stands for "not read").
ClockReads(ts) == IF ts = 0 THEN Times ELSE {0}

Level(p, s) == [price |-> p, size |-> s]

\* Array.prototype.findIndex; 0 plays the part of -1 (sequences start at 1).
FindIndex(levels, P(_)) ==
    IF \E i \in 1..Len(levels) : P(levels[i])
    THEN CHOOSE i \in 1..Len(levels) :
            P(levels[i]) /\ \A j \in 1..(i - 1) : ~P(levels[j])
    ELSE 0

\* Mutant of SpliceRemove: splice(idx) without a delete count drops the tail.
SpliceRemoveTail(levels, idx) ==
    SubSeq(levels, 1, idx - 1)

\* levels.splice(idx, 1)
SpliceRemove(levels, idx) ==
    SubSeq(levels, 1, idx - 1) \o SubSeq(levels, idx + 1, Len(levels))

\* Mutant of SpliceInsert: splice(idx, 1, lvl) overwrites the level at idx.
SpliceInsertReplace(levels, idx, lvl) ==
    SubSeq(levels, 1, idx - 1) \o <<lvl>> \o SubSeq(levels, idx + 1, Len(levels))

\* levels.splice(idx, 0, lvl)
SpliceInsert(levels, idx, lvl) ==
    SubSeq(levels, 1, idx - 1) \o <<lvl>> \o SubSeq(levels, idx, Len(levels))

\* let backendAdapter = null; let eventSubscriber = null: 0 stands for null,
\* an instance is named by the order of its construction.
NewLoader ==
    [instance |-> [backend |-> 0, subscriber |-> 0],
     gets |-> << >>,
     constructed |-> [backend |-> 0, subscriber |-> 0],
     resolved |-> [backend |-> {}, subscriber |-> {}]]

\* The initial state of useAuthStore.
NewAuth ==
    [status |-> [isAuthenticated |-> FALSE], isLoading |-> FALSE, error |-> "null",
     polymarketAddress |-> "null", balance |-> "null", positions |-> << >>,
     orders |-> << >>, portfolioLoading |-> FALSE]

\* The initial state of useTradingStore; lastOrderResult is << >> for null,
\* else <<the result>>.
NewTrading ==
    [isPlacingOrder |-> FALSE, orderError |-> "null", lastOrderResult |-> << >>,
     isCancelling |-> FALSE, cancelError |-> "null"]

\* A component that has not rendered useBackendEvent yet.
NewHook ==
    [mounted |-> FALSE, eventName |-> "none", callbackRef |-> 0,
     effects |-> << >>, invoked |-> {}, subscribes |-> 0]

\* ------------------------------------------------------------------- state
VARIABLES
    orderBooks,   \* Map<asset_id, {bids, asks, lastUpdate}>: a function on the keys present
    last,         \* the last operation on the store and the branch it took
    callbacks,    \* WebEventSubscriber.callbacks: Map<event name, Set<callback>>, each Set in insertion order
    eventSource,  \* WebEventSubscriber.eventSource: "null" or "open"
    wsLastUpdate, \* useWebSocketStore.lastUpdate: 0 for null, else a clock reading
    provider,     \* where the effect of WebSocketProvider stands
    market,       \* MarketDetail: the market its connect effect ran for, or "none"
    isConnecting, \* useWebSocketStore.isConnecting
    calls,        \* the store commands in flight, oldest first
    issued,       \* per feed, the last command handed to the backend
    snapshotted,  \* the instruments that got a snapshot since their page was torn down
    settled,      \* what the caller of the last settled store command got from its promise
    status,       \* useWebSocketStore.status: {clob, rtds}
    refresh,      \* <<the status a refreshStatus in flight has read and not yet set>>, or << >>
    feeds,        \* per feed, the backend's connection state machine and feed manager
    listeners,    \* the handlers registered with listen() of the Tauri event API, oldest first
    handles,      \* the unsubscribe handles returned so far, with what they close over
    delivered,    \* the callbacks the last incoming event invoked, per transport
    loader,       \* lib/backend: the singletons, the getBackend/getEventSubscriber calls in flight
    auth,         \* useAuthStore
    authCalls,    \* the actions of the auth store in flight
    trading,      \* useTradingStore
    tradingCalls, \* the actions of the trading store in flight
    hook          \* a component using useBackendEvent: its ref, its effects, the last callback run

vars == <<orderBooks, last, callbacks, eventSource, wsLastUpdate, provider,
          market, isConnecting, calls, issued, snapshotted, settled,
          status, refresh, feeds, listeners, handles, delivered,
          loader, auth, authCalls, trading, tradingCalls, hook>>

\* The state of the market page and of the commands of the websocket store.
pageVars == <<market, isConnecting, calls, issued, settled>>

\* The connection status the client holds and the feeds behind it.
connVars == <<status, refresh, feeds>>

\* The state added around the order books, the event path and the page.
\* The Tauri listeners, the unsubscribe handles and the last delivery.
bridgeVars == <<listeners, handles, delivered>>

\* The backend loader, the auth and trading stores and the event hook.
libVars == <<loader, auth, authCalls, trading, tradingCalls, hook>>

extVars == <<connVars, bridgeVars, libVars>>

\* Everything but the loader, the auth and trading stores, the hook and `last`.
coreVars == <<orderBooks, callbacks, eventSource, wsLastUpdate, provider,
              pageVars, snapshotted, connVars, bridgeVars>>

\* The state outside the order-book store.
appVars == <<callbacks, eventSource, wsLastUpdate, provider,
             market, isConnecting, calls, issued, settled, extVars>>

\* ----------------------------------------------------------- order-book store
\* Mutant of setSnapshot: the new map is not seeded with the old entries.
setSnapshotFreshMap(books, assetId, snapshot, now) ==
    (assetId :> [bids |-> snapshot.bids,
                 asks |-> snapshot.asks,
                 lastUpdate |-> OrNow(snapshot.timestamp, now)])

\* setSnapshot(assetId, snapshot)
setSnapshot(books, assetId, snapshot, now) ==
    (assetId :> [bids |-> snapshot.bids,
                 asks |-> snapshot.asks,
                 lastUpdate |-> OrNow(snapshot.timestamp, now)]) @@ books

\* const levels = delta.side === "BUY" ? [...current.bids] : [...current.asks]
sideLevels(current, delta) ==
    IF delta.side = "BUY" THEN current.bids ELSE current.asks

\* Mutant of existingIdx: levels are matched by parsed price.
existingIdxNumeric(levels, delta) ==
    FindIndex(levels, LAMBDA l : NumEq(parseFloat(l.price), parseFloat(delta.price)))

\* levels.findIndex((l) => l.price === delta.price)
existingIdx(levels, delta) ==
    FindIndex(levels, LAMBDA l : l.price = delta.price)

\* Mutant of insertIdx: the bid comparison is used for both sides.
insertIdxDescending(levels, delta) ==
    FindIndex(levels, LAMBDA l :
        NumGt(parseFloat(delta.price), parseFloat(l.price)))

\* levels.findIndex((l) => side === "BUY" ? newPrice > existingPrice : newPrice < existingPrice)
insertIdx(levels, delta) ==
    FindIndex(levels, LAMBDA l :
        IF delta.side = "BUY"
        THEN NumGt(parseFloat(delta.price), parseFloat(l.price))
        ELSE NumLt(parseFloat(delta.price), parseFloat(l.price)))

\* The three branches of applyDelta on the copied ladder.
newLevels(levels, delta) ==
    IF NumEq(parseFloat(delta.size), 0)
    THEN IF existingIdx(levels, delta) # 0
         THEN SpliceRemove(levels, existingIdx(levels, delta))
         ELSE levels
    ELSE IF existingIdx(levels, delta) # 0
    THEN [levels EXCEPT ![existingIdx(levels, delta)] = Level(delta.price, delta.size)]
    ELSE IF insertIdx(levels, delta) = 0
         THEN Append(levels, Level(delta.price, delta.size))
         ELSE SpliceInsert(levels, insertIdx(levels, delta), Level(delta.price, delta.size))

\* const updatedBook = {...current, lastUpdate, bids|asks: levels}
updatedBook(current, delta, now) ==
    IF delta.side = "BUY"
    THEN [bids |-> newLevels(current.bids, delta),
          asks |-> current.asks,
          lastUpdate |-> OrNow(delta.timestamp, now)]
    ELSE [bids |-> current.bids,
          asks |-> newLevels(current.asks, delta),
          lastUpdate |-> OrNow(delta.timestamp, now)]

\* Mutant of applyDelta: a book is created for an instrument that has none.
applyDeltaLazyBook(books, delta, now) ==
    IF delta.asset_id \notin DOMAIN books
    THEN (delta.asset_id :>
            updatedBook([bids |-> << >>, asks |-> << >>, lastUpdate |-> now], delta, now))
         @@ books
    ELSE (delta.asset_id :> updatedBook(books[delta.asset_id], delta, now)) @@ books

\* applyDelta(delta)
applyDelta(books, delta, now) ==
    IF delta.asset_id \notin DOMAIN books
    THEN books
    ELSE (delta.asset_id :> updatedBook(books[delta.asset_id], delta, now)) @@ books

\* clearOrderBook(assetId)
clearOrderBook(books, assetId) ==
    [k \in (DOMAIN books) \ {assetId} |-> books[k]]

\* clearAll()
clearAll == << >>

\* ------------------------------------------------------------------ inputs
\* Ladders a snapshot payload may carry: empty, the two-level bid ladder and
\* the one-level ask ladder of the venue's example book, and a ladder with a
\* zero-size level.
SnapshotBids ==
    { << >>,
      <<Level("0.50", "100"), Level("0.49", "30")>>,
      <<Level("0.5", "0")>> }

SnapshotAsks ==
    { << >>,
      <<Level("0.51", "30")>> }

SnapshotsOf(assets, bidLadders, askLadders) ==
    [asset_id : assets, bids : bidLadders, asks : askLadders, timestamp : Timestamps]

DeltasOf(assets, sides, prices, sizes) ==
    [asset_id : assets, side : sides, price : prices, size : sizes,
     timestamp : Timestamps]

\* Inputs of the single-instrument specification.
LadderAssets == {"a1"}
Snapshots == SnapshotsOf(LadderAssets, SnapshotBids, SnapshotAsks)
Deltas == DeltasOf(LadderAssets, Sides, PriceStrings, SizeStrings)

\* Inputs of the two-instrument specification.
StoreSnapshots == SnapshotsOf(AssetIds, {<< >>, <<Level("0.5", "0")>>}, SnapshotAsks)
StoreDeltas == DeltasOf(AssetIds, Sides, {"0.50", "0.51"}, {"0.0", "100"})

RECURSIVE SumLevels(_, _)
SumLevels(books, keys) ==
    IF keys = {} THEN 0
    ELSE LET k == CHOOSE x \in keys : TRUE
         IN Len(books[k].bids) + Len(books[k].asks) + SumLevels(books, keys \ {k})

TotalLevels(books) == SumLevels(books, DOMAIN books)

\* The branch applyDelta takes on the store.
deltaCase(books, delta) ==
    IF delta.asset_id \notin DOMAIN books THEN "noBook"
    ELSE LET levels == sideLevels(books[delta.asset_id], delta)
         IN IF NumEq(parseFloat(delta.size), 0)
            THEN IF existingIdx(levels, delta) # 0 THEN "removed" ELSE "zeroAbsent"
            ELSE IF existingIdx(levels, delta) # 0 THEN "updated" ELSE "inserted"

\* The situation setSnapshot finds.
snapshotCase(books, snapshot) ==
    IF snapshot.asset_id \notin DOMAIN books THEN "created"
    ELSE IF snapshot.timestamp # 0 /\ books[snapshot.asset_id].lastUpdate > snapshot.timestamp
         THEN "replacedByOlder"
         ELSE "replaced"

\* ----------------------------------------------------------------- actions
Init ==
    /\ orderBooks = << >>
    /\ last = [op |-> "init", case |-> "none"]
    /\ callbacks = << >>
    /\ eventSource = "null"
    /\ wsLastUpdate = 0
    /\ provider = "unmounted"
    /\ market = "none"
    /\ isConnecting = FALSE
    /\ calls = << >>
    /\ issued = [clob |-> NoCommand, rtds |-> NoCommand]
    /\ snapshotted = {}
    /\ settled = NoSettled
    /\ status = [clob |-> "disconnected", rtds |-> "disconnected"]
    /\ refresh = << >>
    /\ feeds = [f \in Feeds |-> NewFeed]
    /\ listeners = << >>
    /\ handles = << >>
    /\ delivered = [sse |-> << >>, tauri |-> << >>]
    /\ loader = NewLoader
    /\ auth = NewAuth
    /\ authCalls = << >>
    /\ trading = NewTrading
    /\ tradingCalls = << >>
    /\ hook = NewHook

SetSnapshot(S, bound) ==
    \E s \in S : \E now \in ClockReads(s.timestamp) :
        /\ orderBooks' = setSnapshot(orderBooks, s.asset_id, s, now)
        /\ TotalLevels(orderBooks') <= bound
        /\ last' = [op |-> "setSnapshot", case |-> snapshotCase(orderBooks, s)]
        /\ snapshotted' = snapshotted \cup {s.asset_id}
        /\ UNCHANGED appVars

ApplyDelta(D, bound) ==
    \E d \in D : \E now \in ClockReads(d.timestamp) :
        /\ orderBooks' = applyDelta(orderBooks, d, now)
        /\ TotalLevels(orderBooks') <= bound
        /\ last' = [op |-> "applyDelta", case |-> deltaCase(orderBooks, d)]
        /\ UNCHANGED <<appVars, snapshotted>>

ClearOrderBook(A) ==
    \E a \in A :
        /\ orderBooks' = clearOrderBook(orderBooks, a)
        /\ last' = [op |-> "clearOrderBook", case |-> "none"]
        /\ UNCHANGED <<appVars, snapshotted>>

ClearAll ==
    /\ orderBooks' = clearAll
    /\ last' = [op |-> "clearAll", case |-> "none"]
    /\ UNCHANGED <<appVars, snapshotted>>

\* The ladder algorithm on one instrument.
Next ==
    \/ SetSnapshot(Snapshots, MaxLevels)
    \/ ApplyDelta(Deltas, MaxLevels)
    \/ ClearOrderBook(LadderAssets)
    \/ ClearAll

Spec == Init /\ [][Next]_vars

\* The store with two instruments.
NextStore ==
    \/ SetSnapshot(StoreSnapshots, MaxStoreLevels)
    \/ ApplyDelta(StoreDeltas, MaxStoreLevels)
    \/ ClearOrderBook(AssetIds)
    \/ ClearAll

SpecStore == Init /\ [][NextStore]_vars

\* ------------------------------------------------------ event subscriber (SSE)
\* EVENTS
EventNames ==
    {"connection_status", "orderbook_snapshot", "orderbook_delta",
     "price_update", "trade_update", "clob_trade"}

\* The callback WebSocketProvider passes for an event: one closure per event.
ProviderCallback(name) == <<"WebSocketProvider", name>>

\* The list WebSocketProvider hands to subscribeMany.
ProviderEvents ==
    << [name |-> "connection_status",  callback |-> ProviderCallback("connection_status")],
       [name |-> "orderbook_snapshot", callback |-> ProviderCallback("orderbook_snapshot")],
       [name |-> "orderbook_delta",    callback |-> ProviderCallback("orderbook_delta")],
       [name |-> "price_update",       callback |-> ProviderCallback("price_update")],
       [name |-> "trade_update",       callback |-> ProviderCallback("trade_update")],
       [name |-> "clob_trade",         callback |-> ProviderCallback("clob_trade")] >>

\* A JS Set is kept as the sequence of its members in insertion order.
Members(set) == { set[i] : i \in 1..Len(set) }

\* Set.prototype.add: a member that is present keeps its place.
SetAdd(set, x) == IF x \in Members(set) THEN set ELSE Append(set, x)

\* Set.prototype.delete
SetDelete(set, x) == SelectSeq(set, LAMBDA y : y # x)

\* getTotalSubscribers()
getTotalSubscribers(cbs) ==
    Cardinality(UNION { { <<e, c>> : c \in Members(cbs[e]) } : e \in DOMAIN cbs })

\* subscribe(eventName, callback): the registration
subscribe(cbs, eventName, callback) ==
    [e \in (DOMAIN cbs) \cup {eventName} |->
        IF e = eventName
        THEN SetAdd(IF e \in DOMAIN cbs THEN cbs[e] ELSE << >>, callback)
        ELSE cbs[e]]

\* Mutant of unsubscribe: the handle leaves the callback in its set.
unsubscribeKeep(cbs, eventName, callback) == cbs

\* The handle subscribe returns: callbacks.get(eventName)?.delete(callback)
unsubscribe(cbs, eventName, callback) ==
    IF eventName \in DOMAIN cbs
    THEN [cbs EXCEPT ![eventName] = SetDelete(@, callback)]
    ELSE cbs

\* subscribeMany(events): every subscribe runs to its end inside events.map
RECURSIVE subscribeMany(_, _)
subscribeMany(cbs, events) ==
    IF events = << >> THEN cbs
    ELSE subscribeMany(subscribe(cbs, Head(events).name, Head(events).callback),
                       Tail(events))

\* The handle subscribeMany returns: unsubscribers.forEach((u) => u())
RECURSIVE unsubscribeMany(_, _)
unsubscribeMany(cbs, events) ==
    IF events = << >> THEN cbs
    ELSE unsubscribeMany(unsubscribe(cbs, Head(events).name, Head(events).callback),
                         Tail(events))

\* onmessage: the callbacks invoked for a message of a type, all with its payload
invoked(cbs, type) ==
    IF type \in DOMAIN cbs THEN Members(cbs[type]) ELSE {}

\* The orderbook_snapshot callback of WebSocketProvider, on the order books.
onSnapshot(books, payload, now) ==
    setSnapshot(books, payload.asset_id, payload, now)

\* The orderbook_delta callback of WebSocketProvider, on the order books.
onDelta(books, payload, now) ==
    applyDelta(books, payload, now)

\* onmessage for an orderbook_snapshot message, on the order books.
deliverSnapshot(books, cbs, payload, now) ==
    IF ProviderCallback("orderbook_snapshot") \in invoked(cbs, "orderbook_snapshot")
    THEN onSnapshot(books, payload, now)
    ELSE books

\* onmessage for an orderbook_delta message, on the order books.
deliverDelta(books, cbs, payload, now) ==
    IF ProviderCallback("orderbook_delta") \in invoked(cbs, "orderbook_delta")
    THEN onDelta(books, payload, now)
    ELSE books

\* A payload that lacks a required field.
MalformedSnapshot(payload) == payload.asset_id = UNDEFINED

MalformedDelta(payload) ==
    \/ payload.asset_id = UNDEFINED
    \/ payload.side = UNDEFINED
    \/ payload.price = UNDEFINED
    \/ payload.size = UNDEFINED

\* What a delivery did, for the record of the last operation.
deliveryCase(cbs, type, malformed) ==
    IF invoked(cbs, type) = {} THEN "noCallback"
    ELSE IF malformed THEN "deliveredMalformed"
    ELSE "delivered"

\* Payloads of the event path: the well-formed ones of one instrument and
\* those that lack asset_id, side, price or size.
EventSnapshots ==
    SnapshotsOf({"a1", UNDEFINED}, {<< >>, <<Level("0.50", "100")>>}, {<< >>})

EventDeltas ==
    DeltasOf({"a1", UNDEFINED}, {"BUY", UNDEFINED},
             {"0.50", UNDEFINED}, {"0.0", "30", UNDEFINED})

\* WebSocketProvider mounts: the effect starts setupListeners, which awaits
\* the subscriber.
ProviderMount ==
    /\ provider = "unmounted"
    /\ provider' = "settingUp"
    /\ last' = [op |-> "providerMount", case |-> "none"]
    /\ UNCHANGED <<extVars, orderBooks, callbacks, eventSource, wsLastUpdate, pageVars, snapshotted>>

\* setupListeners resumes: subscribeMany registers the six callbacks
\* (ensureConnection opens the EventSource) and `unsubscribe` is assigned.
\* When the cleanup has run before, the handle is never called.
ProviderSetupListeners ==
    /\ provider \in {"settingUp", "tornDownEarly"}
    /\ callbacks' = subscribeMany(callbacks, ProviderEvents)
    /\ eventSource' = "open"
    /\ provider' = IF provider = "settingUp" THEN "listening" ELSE "leaked"
    /\ last' = [op |-> "subscribeMany", case |-> "none"]
    /\ UNCHANGED <<extVars, orderBooks, wsLastUpdate, pageVars, snapshotted>>

\* WebSocketProvider unmounts: the cleanup calls unsubscribe?.()
ProviderUnmount ==
    /\ provider \in {"settingUp", "listening"}
    /\ IF provider = "listening"
       THEN /\ callbacks' = unsubscribeMany(callbacks, ProviderEvents)
            /\ eventSource' =
                 IF getTotalSubscribers(callbacks') = 0 THEN "null" ELSE eventSource
            /\ provider' = "unmounted"
       ELSE /\ provider' = "tornDownEarly"
            /\ UNCHANGED <<callbacks, eventSource>>
    /\ last' = [op |-> "providerUnmount", case |-> "none"]
    /\ UNCHANGED <<extVars, orderBooks, wsLastUpdate, pageVars, snapshotted>>

\* onmessage with an orderbook_snapshot message
SseSnapshotMessage(S, bound) ==
    \E payload \in S, now \in Times :
        /\ eventSource = "open"
        /\ orderBooks' = deliverSnapshot(orderBooks, callbacks, payload, now)
        /\ TotalLevels(orderBooks') <= bound
        /\ wsLastUpdate' =
             IF ProviderCallback("orderbook_snapshot") \in invoked(callbacks, "orderbook_snapshot")
             THEN now ELSE wsLastUpdate
        /\ last' = [op |-> "onmessage",
                    case |-> deliveryCase(callbacks, "orderbook_snapshot",
                                          MalformedSnapshot(payload))]
        /\ snapshotted' =
             IF ProviderCallback("orderbook_snapshot") \in invoked(callbacks, "orderbook_snapshot")
             THEN snapshotted \cup {payload.asset_id} ELSE snapshotted
        /\ UNCHANGED <<extVars, callbacks, eventSource, provider, pageVars>>

\* onmessage with an orderbook_delta message
SseDeltaMessage(D, bound) ==
    \E payload \in D, now \in Times :
        /\ eventSource = "open"
        /\ orderBooks' = deliverDelta(orderBooks, callbacks, payload, now)
        /\ TotalLevels(orderBooks') <= bound
        /\ wsLastUpdate' =
             IF ProviderCallback("orderbook_delta") \in invoked(callbacks, "orderbook_delta")
             THEN now ELSE wsLastUpdate
        /\ last' = [op |-> "onmessage",
                    case |-> deliveryCase(callbacks, "orderbook_delta",
                                          MalformedDelta(payload))]
        /\ UNCHANGED <<extVars, callbacks, eventSource, provider, pageVars, snapshotted>>

\* onmessage with a price_update, trade_update or clob_trade message
SsePriceMessage ==
    \E type \in {"price_update", "trade_update", "clob_trade"}, now \in Times :
        /\ eventSource = "open"
        /\ wsLastUpdate' =
             IF ProviderCallback(type) \in invoked(callbacks, type)
             THEN now ELSE wsLastUpdate
        /\ last' = [op |-> "onmessage", case |-> deliveryCase(callbacks, type, FALSE)]
        /\ UNCHANGED <<extVars, orderBooks, callbacks, eventSource, provider, pageVars, snapshotted>>

\* onmessage with data that JSON.parse rejects: the catch logs it
SseUnparseableMessage ==
    /\ eventSource = "open"
    /\ last' = [op |-> "onmessage", case |-> "unparseable"]
    /\ UNCHANGED <<extVars, orderBooks, callbacks, eventSource, wsLastUpdate, provider,
                   pageVars, snapshotted>>

\* The event path: provider, subscriber and the messages of the stream.
NextEvents ==
    \/ ProviderMount
    \/ ProviderSetupListeners
    \/ ProviderUnmount
    \/ SseSnapshotMessage(EventSnapshots, MaxEventLevels)
    \/ SseDeltaMessage(EventDeltas, MaxEventLevels)
    \/ SsePriceMessage
    \/ SseUnparseableMessage

SpecEvents == Init /\ [][NextEvents]_vars

\* ------------------------------------------- market page and websocket store
\* A store command in flight: connectToClob, connectToRtds, disconnectFromClob
\* or disconnectFromRtds, awaiting getBackend() or awaiting the backend call.
Call(cmd, feed, tokens) ==
    [cmd |-> cmd, feed |-> feed, tokens |-> tokens, pc |-> "getBackend"]

\* Payloads of the market page's specification: the book messages of the
\* instruments named by the last connect command handed to the CLOB feed.
PageSnapshots ==
    SnapshotsOf(IF issued.clob.cmd = "connect" THEN issued.clob.tokens ELSE {},
                {<<Level("0.50", "100")>>}, {<< >>})

PageDeltas ==
    DeltasOf(IF issued.clob.cmd = "connect" THEN issued.clob.tokens ELSE {},
             {"BUY"}, {"0.50"}, {"0.0", "30"})

\* MarketDetail: the market is loaded and the connect effect runs:
\* connectToClob(tokenIds); connectToRtds(tokenIds), each setting isConnecting
\* before its first await.
PageMount(M) ==
    \E m \in M :
        /\ market = "none"
        /\ Len(calls) + 2 <= MaxCalls
        /\ market' = m
        /\ isConnecting' = TRUE
        /\ calls' = calls \o << Call("connect", "clob", tokenIds(m)),
                                Call("connect", "rtds", tokenIds(m)) >>
        /\ last' = [op |-> "pageMount", case |-> "none"]
        /\ UNCHANGED <<extVars, orderBooks, callbacks, eventSource, wsLastUpdate, provider,
                       issued, snapshotted, settled>>

\* MarketDetail unmounts: the cleanup of the effect runs:
\* disconnectFromClob(); disconnectFromRtds(). Nothing touches the order books.
PageUnmount ==
    /\ market # "none"
    /\ Len(calls) + 2 <= MaxCalls
    /\ market' = "none"
    /\ calls' = calls \o << Call("disconnect", "clob", {}),
                            Call("disconnect", "rtds", {}) >>
    /\ snapshotted' = snapshotted \ tokenIds(market)
    /\ last' = [op |-> "pageUnmount", case |-> "none"]
    /\ UNCHANGED <<extVars, orderBooks, callbacks, eventSource, wsLastUpdate, provider,
                   isConnecting, issued, settled>>

\* MarketDetail loads another market while one is displayed: setMarket(data)
\* re-runs the connect effect, its cleanup first: disconnectFromClob();
\* disconnectFromRtds(); connectToClob(tokenIds); connectToRtds(tokenIds).
PageSwitch ==
    \E m \in MarketIds \ {market} :
        /\ market # "none"
        /\ Len(calls) + 4 <= MaxCalls
        /\ market' = m
        /\ isConnecting' = TRUE
        /\ calls' = calls \o << Call("disconnect", "clob", {}),
                                Call("disconnect", "rtds", {}),
                                Call("connect", "clob", tokenIds(m)),
                                Call("connect", "rtds", tokenIds(m)) >>
        /\ snapshotted' = snapshotted \ tokenIds(market)
        /\ last' = [op |-> "pageSwitch", case |-> "none"]
        /\ UNCHANGED <<extVars, orderBooks, callbacks, eventSource, wsLastUpdate, provider,
                       issued, settled>>

\* Mutant of CallGetBackend: any waiting command may resume first.
CallGetBackendAnyOrder ==
    \E i \in 1..Len(calls) :
        /\ calls[i].pc = "getBackend"
        /\ calls' = [calls EXCEPT ![i].pc = "invoke"]
        /\ issued' = [issued EXCEPT ![calls[i].feed] =
                         [cmd |-> calls[i].cmd, tokens |-> calls[i].tokens]]
        /\ last' = [op |-> "getBackend", case |-> calls[i].cmd]
        /\ UNCHANGED <<extVars, orderBooks, callbacks, eventSource, wsLastUpdate, provider,
                       market, isConnecting, snapshotted, settled>>

\* `await getBackend()` resumes for the oldest command still waiting for it,
\* and the command is handed to the backend.
CallGetBackend ==
    \E i \in 1..Len(calls) :
        /\ calls[i].pc = "getBackend"
        /\ \A j \in 1..(i - 1) : calls[j].pc # "getBackend"
        /\ calls' = [calls EXCEPT ![i].pc = "invoke"]
        /\ issued' = [issued EXCEPT ![calls[i].feed] =
                         [cmd |-> calls[i].cmd, tokens |-> calls[i].tokens]]
        /\ last' = [op |-> "getBackend", case |-> calls[i].cmd]
        /\ UNCHANGED <<extVars, orderBooks, callbacks, eventSource, wsLastUpdate, provider,
                       market, isConnecting, snapshotted, settled>>

\* What the promise of a store command does when the backend call settles:
\* no command has a catch, and try/finally passes the rejection on.
commandPromise(cmd, outcome) ==
    IF outcome = "rejected" THEN "rejected" ELSE "fulfilled"

\* The backend call of a command settles, resolved or rejected; the finally
\* block of a connect command clears isConnecting.
CallSettle ==
    \E i \in 1..Len(calls), outcome \in {"resolved", "rejected"} :
        /\ calls[i].pc = "invoke"
        /\ calls' = SpliceRemove(calls, i)
        /\ isConnecting' = IF calls[i].cmd = "connect" THEN FALSE ELSE isConnecting
        /\ last' = [op |-> "settle", case |-> outcome]
        /\ settled' = [cmd |-> calls[i].cmd, feed |-> calls[i].feed,
                       promise |-> commandPromise(calls[i].cmd, outcome)]
        /\ UNCHANGED <<extVars, orderBooks, callbacks, eventSource, wsLastUpdate, provider,
                       market, issued, snapshotted>>

\* The application: provider, stream, market page and store commands.
NextPage ==
    \/ ProviderMount
    \/ ProviderSetupListeners
    \/ SseSnapshotMessage(PageSnapshots, MaxEventLevels)
    \/ SseDeltaMessage(PageDeltas, MaxEventLevels)
    \/ PageMount({"m1"})
    \/ PageUnmount
    \/ CallGetBackend
    \/ CallSettle

SpecPage == Init /\ [][NextPage]_vars

\* The market page alone, showing one market after another, and its commands.
NextMarket ==
    \/ PageMount(MarketIds)
    \/ PageSwitch
    \/ PageUnmount
    \/ CallGetBackend
    \/ CallSettle

SpecMarket == Init /\ [][NextMarket]_vars

\* ------------------------------------------------- connection status (client)
\* setStatus(status)
setStatus(st, s) == s

\* setClobStatus(clob)
setClobStatus(st, clob) == [st EXCEPT !.clob = clob]

\* setRtdsStatus(rtds)
setRtdsStatus(st, rtds) == [st EXCEPT !.rtds = rtds]

\* The connection_status callback of WebSocketProvider, when the subscriber
\* has it registered: setStatus(payload as ConnectionStatus).
emitStatus(cbs, st, payload) ==
    IF ProviderCallback("connection_status") \in invoked(cbs, "connection_status")
    THEN setStatus(st, payload)
    ELSE st

\* The statuses the callers of the setters pass in the model.
StatusInputs ==
    { [clob |-> "connected", rtds |-> "connected"],
      [clob |-> "disconnected", rtds |-> "disconnected"] }

SetStatus ==
    \E s \in StatusInputs :
        /\ status' = setStatus(status, s)
        /\ last' = [op |-> "setStatus", case |-> "none"]
        /\ UNCHANGED <<orderBooks, callbacks, eventSource, wsLastUpdate, provider,
                       pageVars, snapshotted, libVars, refresh, feeds, bridgeVars>>

SetClobStatus ==
    \E v \in {"connecting", "connected"} :
        /\ status' = setClobStatus(status, v)
        /\ last' = [op |-> "setClobStatus", case |-> "none"]
        /\ UNCHANGED <<orderBooks, callbacks, eventSource, wsLastUpdate, provider,
                       pageVars, snapshotted, libVars, refresh, feeds, bridgeVars>>

SetRtdsStatus ==
    \E v \in {"connecting", "connected"} :
        /\ status' = setRtdsStatus(status, v)
        /\ last' = [op |-> "setRtdsStatus", case |-> "none"]
        /\ UNCHANGED <<orderBooks, callbacks, eventSource, wsLastUpdate, provider,
                       pageVars, snapshotted, libVars, refresh, feeds, bridgeVars>>

\* ------------------------------------- connection state machine, feed manager
\* Backoff configuration, in tenths of a second: base 1 s, cap 30 s, a jitter
\* of at most a tenth, and the retry ceiling.
Base == 10
Cap == 300
MaxJitter == 1
RetryCeiling == 6

Min(a, b) == IF a < b THEN a ELSE b

\* min(base * 2^attempt, cap)
Backoff(attempt) == Min(Base * 2^attempt, Cap)

\* getConnectionStatus(): the state of each feed
backendStatus(fs) == [clob |-> fs.clob.state, rtds |-> fs.rtds.state]

\* A subscribe command naming instruments.
Subscribe(ids) == [kind |-> "subscribe", ids |-> ids]

\* The consumer asks to watch instruments: they join the interest set; a feed
\* that is Disconnected or Failed starts to connect, a Connected one sends an
\* incremental subscribe at once, otherwise the instruments wait in the set.
feedConnect(fd, ids) ==
    CASE fd.state \in {"disconnected", "failed"} ->
            [fd EXCEPT !.state = "connecting", !.interest = @ \cup ids]
      [] fd.state = "connected" ->
            [fd EXCEPT !.interest = @ \cup ids, !.subscribed = @ \cup ids,
                       !.command = Subscribe(ids)]
      [] OTHER ->
            [fd EXCEPT !.interest = @ \cup ids]

\* Mutant of feedOpen: the subscription is not reissued on Connected.
feedOpenSilent(fd) ==
    [fd EXCEPT !.state = "connected", !.attempt = 0, !.failures = 0, !.delay = 0]

\* Transport open: Connected; the attempt counter is reset and one batched
\* subscribe covering the whole interest set is issued.
feedOpen(fd) ==
    [fd EXCEPT !.state = "connected", !.attempt = 0, !.failures = 0, !.delay = 0,
               !.subscribed = fd.interest, !.command = Subscribe(fd.interest)]

\* Mutant of feedFail: the delay does not grow with the attempts.
feedFailFlat(fd, jitter) ==
    [fd EXCEPT !.state = "reconnecting", !.delay = Backoff(0) + jitter,
               !.attempt = @ + 1, !.failures = @ + 1, !.subscribed = {}]

\* A transient transport error, in the handshake or while live: Reconnecting,
\* with the next attempt scheduled after the backoff delay.
feedFail(fd, jitter) ==
    [fd EXCEPT !.state = "reconnecting", !.delay = Backoff(fd.attempt) + jitter,
               !.attempt = @ + 1, !.failures = @ + 1, !.subscribed = {}]

\* The backoff delay has elapsed: Connecting.
feedRetry(fd) == [fd EXCEPT !.state = "connecting", !.delay = 0]

\* The retry ceiling is exceeded: Failed.
feedGiveUp(fd) == [fd EXCEPT !.state = "failed", !.delay = 0]

\* A fatal error: Failed, without retry.
feedFatal(fd) == [fd EXCEPT !.state = "failed", !.delay = 0, !.subscribed = {}]

\* Intentional teardown: Disconnected, the interest dropped and any pending
\* reconnect timer cancelled.
feedTeardown(fd) ==
    [fd EXCEPT !.state = "disconnected", !.delay = 0, !.interest = {},
               !.subscribed = {}, !.command = [kind |-> "none", ids |-> {}]]

\* A step of a feed: its new state, and the connection_status event emitted
\* when the connection state changed.
FeedStep(f, fd, op, case) ==
    /\ feeds' = [feeds EXCEPT ![f] = fd]
    /\ status' = IF fd.state # feeds[f].state
                 THEN emitStatus(callbacks, status, backendStatus(feeds'))
                 ELSE status
    /\ last' = [op |-> op, case |-> case]
    /\ UNCHANGED <<orderBooks, callbacks, eventSource, wsLastUpdate, provider,
                   pageVars, snapshotted, libVars, refresh, bridgeVars>>

FeedConnect(F, A) ==
    \E f \in F, a \in A :
        FeedStep(f, feedConnect(feeds[f], {a}), "feedConnect", feeds[f].state)

FeedOpen(F) ==
    \E f \in F :
        /\ feeds[f].state = "connecting"
        /\ FeedStep(f, feedOpen(feeds[f]), "feedOpen",
                    IF feeds[f].command.kind = "subscribe" THEN "reconnect" ELSE "first")

FeedFail(F, J) ==
    \E f \in F, jitter \in J :
        /\ feeds[f].state \in {"connecting", "connected"}
        /\ feeds[f].attempt < MaxAttempts
        /\ FeedStep(f, feedFail(feeds[f], jitter), "feedFail", feeds[f].state)

FeedRetry(F) ==
    \E f \in F :
        /\ feeds[f].state = "reconnecting"
        /\ feeds[f].attempt <= RetryCeiling
        /\ FeedStep(f, feedRetry(feeds[f]), "feedRetry", "none")

FeedGiveUp(F) ==
    \E f \in F :
        /\ feeds[f].state = "reconnecting"
        /\ feeds[f].attempt > RetryCeiling
        /\ FeedStep(f, feedGiveUp(feeds[f]), "feedGiveUp", "none")

FeedFatal(F) ==
    \E f \in F :
        /\ feeds[f].state \in {"connecting", "connected"}
        /\ FeedStep(f, feedFatal(feeds[f]), "feedFatal", "none")

FeedTeardown(F) ==
    \E f \in F :
        /\ feeds[f].state # "disconnected"
        /\ FeedStep(f, feedTeardown(feeds[f]), "feedTeardown", "none")

\* refreshStatus(): getConnectionStatus() resolves with the backend's status
RefreshRead ==
    /\ refresh = << >>
    /\ refresh' = <<backendStatus(feeds)>>
    /\ last' = [op |-> "refreshRead", case |-> "none"]
    /\ UNCHANGED <<orderBooks, callbacks, eventSource, wsLastUpdate, provider,
                   pageVars, snapshotted, libVars, status, feeds, bridgeVars>>

\* refreshStatus(): set({ status })
RefreshSet ==
    /\ refresh # << >>
    /\ status' = setStatus(status, refresh[1])
    /\ refresh' = << >>
    /\ last' = [op |-> "refreshSet", case |-> "none"]
    /\ UNCHANGED <<orderBooks, callbacks, eventSource, wsLastUpdate, provider,
                   pageVars, snapshotted, libVars, feeds, bridgeVars>>

\* The feed the specifications below follow.
ManagedFeeds == {"clob"}

\* One feed with its manager.
NextFeed ==
    \/ FeedConnect(ManagedFeeds, AssetIds)
    \/ FeedOpen(ManagedFeeds)
    \/ FeedFail(ManagedFeeds, 0..MaxJitter)
    \/ FeedRetry(ManagedFeeds)
    \/ FeedGiveUp(ManagedFeeds)
    \/ FeedFatal(ManagedFeeds)
    \/ FeedTeardown(ManagedFeeds)

SpecFeed == Init /\ [][NextFeed]_vars

\* The client's connection status, fed by the provider and by the setters.
NextStatus ==
    \/ ProviderMount
    \/ ProviderSetupListeners
    \/ SetStatus
    \/ SetClobStatus
    \/ SetRtdsStatus
    \/ RefreshRead
    \/ RefreshSet
    \/ FeedConnect(ManagedFeeds, {"a1"})
    \/ FeedOpen(ManagedFeeds)
    \/ FeedFail(ManagedFeeds, {0})
    \/ FeedRetry(ManagedFeeds)
    \/ FeedGiveUp(ManagedFeeds)
    \/ FeedFatal(ManagedFeeds)
    \/ FeedTeardown(ManagedFeeds)

SpecStatus == Init /\ [][NextStatus]_vars

\* --------------------------------------------- event bridge: both transports
\* The callback a consumer passes (useBackendEvent, useBackendEvents).
ConsumerCallback(n) == <<"consumer", n>>

\* An (event, callback) pair as subscribeMany takes it.
Pair(name, callback) == [name |-> name, callback |-> callback]

\* The registrations made in the model: the provider's snapshot callback, a
\* consumer callback on the same event (it may be registered twice), and the
\* same consumer callback on another event.
SubscribePairs ==
    { Pair("orderbook_snapshot", ProviderCallback("orderbook_snapshot")),
      Pair("orderbook_snapshot", ConsumerCallback("cb1")),
      Pair("price_update", ConsumerCallback("cb1")) }

\* The lists handed to subscribeMany in the model.
SubscribeBatches ==
    { << Pair("orderbook_snapshot", ConsumerCallback("cb1")),
         Pair("price_update", ConsumerCallback("cb2")) >> }

BridgeEvents == {"orderbook_snapshot", "price_update"}

\* The payload of an incoming event: present, or missing from the message.
BridgePayloads == {"payload", UNDEFINED}

\* A callback throws on a payload: the provider's snapshot callback reads
\* snapshot.asset_id, a TypeError when the payload is missing.
throws(callback, payload) ==
    callback = ProviderCallback("orderbook_snapshot") /\ payload = UNDEFINED

\* callbacks?.forEach((cb) => cb(payload)) inside try/catch: the callbacks
\* invoked, in order; the first one that throws ends the loop.
RECURSIVE forEachInTry(_, _)
forEachInTry(cbs, payload) ==
    IF cbs = << >> THEN << >>
    ELSE IF throws(Head(cbs), payload) THEN <<Head(cbs)>>
    ELSE <<Head(cbs)>> \o forEachInTry(Tail(cbs), payload)

\* onmessage of the EventSource: the callbacks invoked for a message.
sseInvocations(cbs, es, type, payload) ==
    IF es = "open" /\ type \in DOMAIN cbs
    THEN forEachInTry(cbs[type], payload)
    ELSE << >>

\* listen(name, (event) => callback(event.payload)): a new handler.
listen(ls, id, name, callback) ==
    Append(ls, [id |-> id, name |-> name, callback |-> callback])

\* The UnlistenFn of a handler.
unlisten(ls, id) == SelectSeq(ls, LAMBDA l : l.id # id)

\* The listeners of an event, each invoked on its own with the payload.
RECURSIVE tauriInvocations(_, _)
tauriInvocations(ls, type) ==
    IF ls = << >> THEN << >>
    ELSE (IF Head(ls).name = type THEN <<Head(ls).callback>> ELSE << >>)
         \o tauriInvocations(Tail(ls), type)

\* TauriEventSubscriber.subscribeMany: listen is awaited pair by pair; when
\* the listen of pair number `failAt` rejects (0: none does), the loop ends
\* there and the pairs before it stay registered.
RECURSIVE tauriSubscribeMany(_, _, _, _, _)
tauriSubscribeMany(ls, h, events, i, failAt) ==
    IF i > Len(events) \/ i = failAt THEN ls
    ELSE tauriSubscribeMany(listen(ls, <<h, i>>, events[i].name, events[i].callback),
                            h, events, i + 1, failAt)

\* The ids of the handlers a subscribeMany registered.
registeredIds(h, events, failAt) ==
    [i \in 1..(IF failAt = 0 THEN Len(events) ELSE failAt - 1) |-> <<h, i>>]

\* The handle of TauriEventSubscriber: unlisteners.forEach((u) => u())
RECURSIVE tauriHandle(_, _)
tauriHandle(ls, ids) ==
    IF ids = << >> THEN ls
    ELSE tauriHandle(unlisten(ls, Head(ids)), Tail(ids))

\* The handle of WebEventSubscriber, on the callbacks.
sseHandle(cbs, events) == unsubscribeMany(cbs, events)

\* Mutant of sseHandleSource: the connection is never closed.
sseHandleSourceKeep(cbs, es, events) == es

\* The handle of WebEventSubscriber, on the connection: closed (and null)
\* once no subscriber is left.
sseHandleSource(cbs, es, events) ==
    IF getTotalSubscribers(sseHandle(cbs, events)) = 0 THEN "null" ELSE es

\* What a handle closes over: its pairs (SSE) and its unlisteners (Tauri);
\* failed: the Tauri subscribeMany rejected, so that no Tauri handle exists.
Handle(events, ids, failed) ==
    [pairs |-> events, ids |-> ids, failed |-> failed, called |-> FALSE]

\* subscribe(eventName, callback) on both subscribers.
BridgeSubscribe ==
    \E p \in SubscribePairs :
        /\ Len(handles) < MaxHandles
        /\ callbacks' = subscribe(callbacks, p.name, p.callback)
        /\ eventSource' = "open"
        /\ listeners' = listen(listeners, <<Len(handles) + 1, 1>>, p.name, p.callback)
        /\ handles' = Append(handles, Handle(<<p>>, <<<<Len(handles) + 1, 1>>>>, FALSE))
        /\ last' = [op |-> "subscribe", case |-> "none"]
        /\ UNCHANGED <<orderBooks, wsLastUpdate, provider, pageVars, snapshotted, libVars,
                       connVars, delivered>>

\* subscribeMany(events) on both subscribers; on the Tauri side the listen of
\* one pair may reject.
BridgeSubscribeMany ==
    \E events \in SubscribeBatches, failAt \in 0..2 :
        /\ Len(handles) < MaxHandles
        /\ failAt <= Len(events)
        /\ callbacks' = subscribeMany(callbacks, events)
        /\ eventSource' = "open"
        /\ listeners' = tauriSubscribeMany(listeners, Len(handles) + 1, events, 1, failAt)
        /\ handles' = Append(handles,
                             Handle(events, registeredIds(Len(handles) + 1, events, failAt),
                                    failAt # 0))
        /\ last' = [op |-> "subscribeMany",
                    case |-> IF failAt = 0 THEN "registered" ELSE "listenRejected"]
        /\ UNCHANGED <<orderBooks, wsLastUpdate, provider, pageVars, snapshotted, libVars,
                       connVars, delivered>>

\* An unsubscribe handle is called, for the first time or again.
BridgeUnsubscribe ==
    \E h \in 1..Len(handles) :
        /\ callbacks' = sseHandle(callbacks, handles[h].pairs)
        /\ eventSource' = sseHandleSource(callbacks, eventSource, handles[h].pairs)
        /\ listeners' = IF handles[h].failed THEN listeners
                        ELSE tauriHandle(listeners, handles[h].ids)
        /\ handles' = [handles EXCEPT ![h].called = TRUE]
        /\ last' = [op |-> "unsubscribe",
                    case |-> IF handles[h].called THEN "again" ELSE "first"]
        /\ UNCHANGED <<orderBooks, wsLastUpdate, provider, pageVars, snapshotted, libVars,
                       connVars, delivered>>

\* An event comes in on both transports.
BridgeEmit ==
    \E type \in BridgeEvents, payload \in BridgePayloads :
        /\ delivered' = [sse |-> sseInvocations(callbacks, eventSource, type, payload),
                         tauri |-> tauriInvocations(listeners, type)]
        /\ last' = [op |-> "emit", case |-> type]
        /\ UNCHANGED <<orderBooks, callbacks, eventSource, wsLastUpdate, provider,
                       pageVars, snapshotted, libVars, connVars, listeners, handles>>

\* The two event subscribers, driven by the same calls and events.
NextBridge ==
    \/ BridgeSubscribe
    \/ BridgeSubscribeMany
    \/ BridgeUnsubscribe
    \/ BridgeEmit

SpecBridge == Init /\ [][NextBridge]_vars

\* ------------------------------------------------- lib/backend: the singletons
Kinds == {"backend", "subscriber"}

\* getBackend() / getEventSubscriber() up to its first await: the singleton
\* is returned when set, else the call goes on to import the adapter module.
getStart(ld, kind) ==
    IF ld.instance[kind] # 0
    THEN [ld EXCEPT !.resolved[kind] = @ \cup {ld.instance[kind]}]
    ELSE [ld EXCEPT !.gets = Append(@, kind)]

\* The rest of the call once `await import(...)` has resumed:
\* backendAdapter = new ...Adapter(); return backendAdapter.
getResume(ld, i) ==
    LET kind == ld.gets[i]
        made == ld.constructed[kind] + 1
    IN [ld EXCEPT !.gets = SpliceRemove(@, i),
                  !.constructed[kind] = made,
                  !.instance[kind] = made,
                  !.resolved[kind] = @ \cup {made}]

\* A call of getBackend() or getEventSubscriber() starts.
GetStart ==
    \E kind \in Kinds :
        /\ Len(loader.gets) < MaxGetters
        /\ loader' = getStart(loader, kind)
        /\ last' = [op |-> "get", case |-> IF loader.instance[kind] # 0 THEN "cached" ELSE "import"]
        /\ UNCHANGED <<coreVars, auth, authCalls, trading, tradingCalls, hook>>

\* The import of a call in flight resolves and the call runs to its end.
GetResume ==
    \E i \in 1..Len(loader.gets) :
        /\ \A j \in 1..(i - 1) : loader.gets[j] # loader.gets[i]
        /\ loader' = getResume(loader, i)
        /\ last' = [op |-> "getResume", case |-> loader.gets[i]]
        /\ UNCHANGED <<coreVars, auth, authCalls, trading, tradingCalls, hook>>

\* _resetForTesting(), between calls: both singletons are null again.
LoaderReset ==
    /\ loader.gets = << >>
    /\ loader # NewLoader
    /\ loader' = NewLoader
    /\ last' = [op |-> "reset", case |-> "none"]
    /\ UNCHANGED <<coreVars, auth, authCalls, trading, tradingCalls, hook>>

NextLoader ==
    \/ GetStart
    \/ GetResume
    \/ LoaderReset

SpecLoader == Init /\ [][NextLoader]_vars

\* ------------------------------------------------------------ useBackendEvent
\* The events the component listens to.
HookEvents == {"orderbook_snapshot", "price_update"}

\* The closure an effect run hands to subscribe: one per run.
EffectCallback(i) == <<"useBackendEvent", ToString(i)>>

\* A render: callbackRef.current = callback, the callback being a new
\* function in each render, named by the number of the render.
render(h, eventName) ==
    [h EXCEPT !.mounted = TRUE, !.eventName = eventName, !.callbackRef = @ + 1]

\* useEffect(..., [eventName]) runs: setup() is called and awaits.
runEffect(h) ==
    [h EXCEPT !.effects = Append(@, [name |-> h.eventName, render |-> h.callbackRef,
                                     pc |-> "settingUp"])]

\* The cleanup of the latest effect run: unsubscribe?.()
cleanupEffect(h) ==
    LET i == Len(h.effects)
    IN [h EXCEPT !.effects[i].pc =
           IF @ = "subscribed" THEN "unsubscribed"
           ELSE IF @ = "settingUp" THEN "cleanedEarly" ELSE @]

\* The subscriber's callbacks after that cleanup.
cleanupCallbacks(cbs, h) ==
    LET i == Len(h.effects)
    IN IF h.effects[i].pc = "subscribed"
       THEN unsubscribe(cbs, h.effects[i].name, EffectCallback(i))
       ELSE cbs

\* Mutant of subscribedCallback: the closure calls the callback of the render
\* its effect ran in.
subscribedCallbackStale(h, effect) == effect.render

\* (payload) => { callbackRef.current(payload) }: the callback that runs
\* when the closure of an effect run is invoked.
subscribedCallback(h, effect) == h.callbackRef

\* The component mounts: first render, and the effect runs.
HookMount ==
    \E name \in HookEvents :
        /\ ~hook.mounted
        /\ hook.callbackRef < MaxRenders
        /\ Len(hook.effects) < MaxEffects
        /\ hook' = runEffect(render(hook, name))
        /\ last' = [op |-> "hookMount", case |-> name]
        /\ UNCHANGED <<coreVars, loader, auth, authCalls, trading, tradingCalls>>

\* The component renders again with a new callback and the same event name:
\* the dependencies of the effect are unchanged.
HookRender ==
    /\ hook.mounted
    /\ hook.callbackRef < MaxRenders
    /\ hook' = render(hook, hook.eventName)
    /\ last' = [op |-> "hookRender", case |-> "callback"]
    /\ UNCHANGED <<coreVars, loader, auth, authCalls, trading, tradingCalls>>

\* The component renders again with another event name: the cleanup of the
\* effect runs, then the effect.
HookRename ==
    \E name \in HookEvents \ {hook.eventName} :
        /\ hook.mounted
        /\ hook.callbackRef < MaxRenders
        /\ Len(hook.effects) < MaxEffects
        /\ hook' = runEffect(render(cleanupEffect(hook), name))
        /\ callbacks' = cleanupCallbacks(callbacks, hook)
        /\ eventSource' = IF getTotalSubscribers(callbacks') = 0 THEN "null" ELSE eventSource
        /\ last' = [op |-> "hookRender", case |-> "eventName"]
        /\ UNCHANGED <<orderBooks, wsLastUpdate, provider, pageVars, snapshotted,
                       connVars, bridgeVars,
                       loader, auth, authCalls, trading, tradingCalls>>

\* setup() of an effect run resumes: subscriber.subscribe(eventName, closure);
\* the handle arrives too late when the cleanup has already run.
HookSetup ==
    \E i \in 1..Len(hook.effects) :
        /\ hook.effects[i].pc \in {"settingUp", "cleanedEarly"}
        /\ callbacks' = subscribe(callbacks, hook.effects[i].name, EffectCallback(i))
        /\ eventSource' = "open"
        /\ hook' = [hook EXCEPT !.subscribes = @ + 1,
                                !.effects[i].pc =
                                    IF @ = "settingUp" THEN "subscribed" ELSE "leaked"]
        /\ last' = [op |-> "hookSetup", case |-> hook.effects[i].pc]
        /\ UNCHANGED <<orderBooks, wsLastUpdate, provider, pageVars, snapshotted,
                       connVars, bridgeVars,
                       loader, auth, authCalls, trading, tradingCalls>>

\* The component unmounts: the cleanup of the effect runs.
HookUnmount ==
    /\ hook.mounted
    /\ hook' = [cleanupEffect(hook) EXCEPT !.mounted = FALSE]
    /\ callbacks' = cleanupCallbacks(callbacks, hook)
    /\ eventSource' = IF getTotalSubscribers(callbacks') = 0 THEN "null" ELSE eventSource
    /\ last' = [op |-> "hookUnmount", case |-> "none"]
    /\ UNCHANGED <<orderBooks, wsLastUpdate, provider, pageVars, snapshotted,
                   connVars, bridgeVars,
                   loader, auth, authCalls, trading, tradingCalls>>

\* An event arrives: every closure registered for it is invoked.
HookEmit ==
    \E type \in HookEvents :
        /\ eventSource = "open"
        /\ hook' = [hook EXCEPT !.invoked =
                       { subscribedCallback(hook, hook.effects[i]) :
                           i \in { j \in 1..Len(hook.effects) :
                                     EffectCallback(j) \in invoked(callbacks, type) } }]
        /\ last' = [op |-> "hookEmit", case |-> type]
        /\ UNCHANGED <<coreVars, loader, auth, authCalls, trading, tradingCalls>>

NextHook ==
    \/ HookMount
    \/ HookRender
    \/ HookRename
    \/ HookSetup
    \/ HookUnmount
    \/ HookEmit

SpecHook == Init /\ [][NextHook]_vars

\* ------------------------------------------------------------------ auth store
\* What the backend answers: the AuthStatus of a session and of none, the
\* Polymarket address it kept ("null": none), a balance, positions, orders.
LoggedIn == [isAuthenticated |-> TRUE]
LoggedOut == [isAuthenticated |-> FALSE]
Addresses == {"null", "0xp"}
Balances(authenticated) == IF authenticated THEN {"null", "b1"} ELSE {"null"}
Orders(authenticated) == IF authenticated THEN {<< >>, <<"o1">>} ELSE {<< >>}
Positions(address) == IF address # "null" THEN {<< >>, <<"p1">>} ELSE {<< >>}

\* An action of the store in flight; fetchPortfolio keeps the status and the
\* address it read from the store when it started.
AuthCall(op, a) ==
    [op |-> op, authenticated |-> a.status.isAuthenticated, address |-> a.polymarketAddress]

\* login / logout: set({ isLoading: true, error: null })
loadingStart(a) == [a EXCEPT !.isLoading = TRUE, !.error = "null"]

\* login / logout, catch: set({ isLoading: false, error: errorMessage })
loadingRejected(a, message) == [a EXCEPT !.isLoading = FALSE, !.error = message]

\* login: set({ status, isLoading: false })
loginResolved(a, st) == [a EXCEPT !.status = st, !.isLoading = FALSE]

\* Mutant of logoutResolved: the orders are left in the store.
logoutResolvedKeepOrders(a, st) ==
    [a EXCEPT !.status = st, !.isLoading = FALSE, !.balance = "null", !.positions = << >>]

\* logout: set({ status, isLoading: false, balance: null, positions: [], orders: [] })
logoutResolved(a, st) ==
    [a EXCEPT !.status = st, !.isLoading = FALSE, !.balance = "null",
              !.positions = << >>, !.orders = << >>]

\* checkAuthStatus: set({ status, polymarketAddress: status.polymarketAddress || null })
checkAuthStatusResolved(a, st, address) ==
    [a EXCEPT !.status = st, !.polymarketAddress = address]

\* fetchPortfolio up to its first await: set({ portfolioLoading: true })
fetchPortfolioStart(a) == [a EXCEPT !.portfolioLoading = TRUE]

\* fetchPortfolio: set({ balance, positions, orders, portfolioLoading: false })
fetchPortfolioDone(a, balance, positions, orders) ==
    [a EXCEPT !.balance = balance, !.positions = positions, !.orders = orders,
              !.portfolioLoading = FALSE]

\* After login or checkAuthStatus has set the status:
\* if (status.isAuthenticated) get().fetchPortfolio(), which runs up to its
\* first await inside the caller.
thenFetchPortfolio(a, cs, i) ==
    IF a.status.isAuthenticated
    THEN [store |-> fetchPortfolioStart(a),
          calls |-> Append(SpliceRemove(cs, i), AuthCall("fetchPortfolio", a))]
    ELSE [store |-> a, calls |-> SpliceRemove(cs, i)]

AuthLogin ==
    /\ Len(authCalls) < MaxAuthCalls
    /\ auth' = loadingStart(auth)
    /\ authCalls' = Append(authCalls, AuthCall("login", auth))
    /\ last' = [op |-> "login", case |-> "start"]
    /\ UNCHANGED <<coreVars, loader, trading, tradingCalls, hook>>

AuthLoginSettle ==
    \E i \in 1..Len(authCalls), outcome \in {"resolved", "rejected"} :
        /\ authCalls[i].op = "login"
        /\ IF outcome = "resolved"
           THEN LET next == thenFetchPortfolio(loginResolved(auth, LoggedIn), authCalls, i)
                IN auth' = next.store /\ authCalls' = next.calls
           ELSE /\ auth' = loadingRejected(auth, "e1")
                /\ authCalls' = SpliceRemove(authCalls, i)
        /\ last' = [op |-> "login", case |-> outcome]
        /\ UNCHANGED <<coreVars, loader, trading, tradingCalls, hook>>

AuthLogout ==
    /\ Len(authCalls) < MaxAuthCalls
    /\ auth' = loadingStart(auth)
    /\ authCalls' = Append(authCalls, AuthCall("logout", auth))
    /\ last' = [op |-> "logout", case |-> "start"]
    /\ UNCHANGED <<coreVars, loader, trading, tradingCalls, hook>>

AuthLogoutSettle ==
    \E i \in 1..Len(authCalls), outcome \in {"resolved", "rejected"} :
        /\ authCalls[i].op = "logout"
        /\ auth' = IF outcome = "resolved" THEN logoutResolved(auth, LoggedOut)
                   ELSE loadingRejected(auth, "e1")
        /\ authCalls' = SpliceRemove(authCalls, i)
        /\ last' = [op |-> "logout", case |-> outcome]
        /\ UNCHANGED <<coreVars, loader, trading, tradingCalls, hook>>

AuthCheck ==
    /\ Len(authCalls) < MaxAuthCalls
    /\ authCalls' = Append(authCalls, AuthCall("checkAuthStatus", auth))
    /\ last' = [op |-> "checkAuthStatus", case |-> "start"]
    /\ UNCHANGED <<coreVars, loader, auth, trading, tradingCalls, hook>>

\* getAuthStatus answers, or fails and the failure is logged.
AuthCheckSettle ==
    \E i \in 1..Len(authCalls), outcome \in {"resolved", "rejected"} :
      \E st \in {LoggedIn, LoggedOut}, address \in Addresses :
        /\ authCalls[i].op = "checkAuthStatus"
        /\ IF outcome = "resolved"
           THEN LET next == thenFetchPortfolio(checkAuthStatusResolved(auth, st, address),
                                               authCalls, i)
                IN auth' = next.store /\ authCalls' = next.calls
           ELSE /\ st = LoggedOut /\ address = "null"
                /\ auth' = auth
                /\ authCalls' = SpliceRemove(authCalls, i)
        /\ last' = [op |-> "checkAuthStatus", case |-> outcome]
        /\ UNCHANGED <<coreVars, loader, trading, tradingCalls, hook>>

\* A component calls fetchPortfolio().
AuthFetchPortfolio ==
    /\ Len(authCalls) < MaxAuthCalls
    /\ auth' = fetchPortfolioStart(auth)
    /\ authCalls' = Append(authCalls, AuthCall("fetchPortfolio", auth))
    /\ last' = [op |-> "fetchPortfolio", case |-> "start"]
    /\ UNCHANGED <<coreVars, loader, trading, tradingCalls, hook>>

\* The fetches of a fetchPortfolio have settled, each with a value or with
\* the default its catch leaves, and the result is set.
AuthFetchPortfolioSettle ==
    \E i \in 1..Len(authCalls) :
      \E balance \in Balances(authCalls[i].authenticated),
         orders \in Orders(authCalls[i].authenticated),
         positions \in Positions(authCalls[i].address) :
        /\ authCalls[i].op = "fetchPortfolio"
        /\ auth' = fetchPortfolioDone(auth, balance, positions, orders)
        /\ authCalls' = SpliceRemove(authCalls, i)
        /\ last' = [op |-> "fetchPortfolio", case |-> "done"]
        /\ UNCHANGED <<coreVars, loader, trading, tradingCalls, hook>>

NextAuth ==
    \/ AuthLogin
    \/ AuthLoginSettle
    \/ AuthLogout
    \/ AuthLogoutSettle
    \/ AuthCheck
    \/ AuthCheckSettle
    \/ AuthFetchPortfolio
    \/ AuthFetchPortfolioSettle

SpecAuth == Init /\ [][NextAuth]_vars

\* --------------------------------------------------------------- trading store
OrderIds == {"order-1", "order-2"}

\* The reasons of CancelResult.notCanceled, the empty string among them.
Reasons == {"", "Order already filled"}

\* How backend.cancelOrder settles: a CancelResult {canceled, notCanceled},
\* or an error thrown (throws: its message, "null" when none).
CancelOutcomes ==
    { [canceled |-> c, notCanceled |-> n, throws |-> "null"] :
        c \in SUBSET OrderIds, n \in UNION { [ids -> Reasons] : ids \in SUBSET OrderIds } }
    \cup { [canceled |-> {}, notCanceled |-> << >>, throws |-> "Cancel failed"] }

\* result.notCanceled[orderId], tested for truthiness.
failReason(orderId, outcome) ==
    IF orderId \in DOMAIN outcome.notCanceled THEN outcome.notCanceled[orderId] ELSE ""

\* The value cancelOrder(orderId) resolves to.
cancelOrderReturn(orderId, outcome) ==
    IF outcome.throws # "null" THEN FALSE
    ELSE IF orderId \in outcome.canceled THEN TRUE
    ELSE IF failReason(orderId, outcome) # "" THEN FALSE
    ELSE TRUE

\* cancelOrder up to its first await: set({ isCancelling: true, cancelError: null })
cancelOrderStart(t) == [t EXCEPT !.isCancelling = TRUE, !.cancelError = "null"]

\* The store when cancelOrder(orderId) has settled.
cancelOrderSettled(t, orderId, outcome) ==
    IF outcome.throws # "null"
    THEN [t EXCEPT !.isCancelling = FALSE, !.cancelError = outcome.throws]
    ELSE IF orderId \notin outcome.canceled /\ failReason(orderId, outcome) # ""
    THEN [t EXCEPT !.isCancelling = FALSE, !.cancelError = failReason(orderId, outcome)]
    ELSE [t EXCEPT !.isCancelling = FALSE]

\* The store when cancelAllOrders has settled; thrown: the message of the
\* error, "null" when none.
cancelAllOrdersSettled(t, thrown) ==
    IF thrown # "null"
    THEN [t EXCEPT !.isCancelling = FALSE, !.cancelError = thrown]
    ELSE [t EXCEPT !.isCancelling = FALSE]

\* How backend.placeOrder settles: a PlaceOrderResult, or an error thrown.
PlaceOutcomes ==
    { [success |-> TRUE, errorMsg |-> "", throws |-> "null"],
      [success |-> FALSE, errorMsg |-> "", throws |-> "null"],
      [success |-> FALSE, errorMsg |-> "not enough balance", throws |-> "null"],
      [success |-> FALSE, errorMsg |-> "", throws |-> "Network error"] }

\* placeOrder up to its first await
placeOrderStart(t) ==
    [t EXCEPT !.isPlacingOrder = TRUE, !.orderError = "null", !.lastOrderResult = << >>]

\* The store when placeOrder has settled.
placeOrderSettled(t, outcome) ==
    IF outcome.throws # "null"
    THEN [t EXCEPT !.isPlacingOrder = FALSE, !.orderError = outcome.throws]
    ELSE [t EXCEPT !.isPlacingOrder = FALSE,
                   !.lastOrderResult = <<[success |-> outcome.success,
                                          errorMsg |-> outcome.errorMsg]>>,
                   !.orderError = IF outcome.success THEN @
                                  ELSE IF outcome.errorMsg # "" THEN outcome.errorMsg
                                  ELSE "Order failed"]

\* clearErrors()
clearErrors(t) == [t EXCEPT !.orderError = "null", !.cancelError = "null"]

\* An action of the store in flight.
TradingCall(op, orderId) == [op |-> op, orderId |-> orderId]

CancelOrder ==
    \E orderId \in OrderIds :
        /\ Len(tradingCalls) < MaxTradingCalls
        /\ trading' = cancelOrderStart(trading)
        /\ tradingCalls' = Append(tradingCalls, TradingCall("cancelOrder", orderId))
        /\ last' = [op |-> "cancelOrder", case |-> "start"]
        /\ UNCHANGED <<coreVars, loader, auth, authCalls, hook>>

CancelOrderSettle ==
    \E i \in 1..Len(tradingCalls), outcome \in CancelOutcomes :
        /\ tradingCalls[i].op = "cancelOrder"
        /\ trading' = cancelOrderSettled(trading, tradingCalls[i].orderId, outcome)
        /\ tradingCalls' = SpliceRemove(tradingCalls, i)
        /\ last' = [op |-> "cancelOrder",
                    case |-> IF cancelOrderReturn(tradingCalls[i].orderId, outcome)
                             THEN "true" ELSE "false"]
        /\ UNCHANGED <<coreVars, loader, auth, authCalls, hook>>

CancelAllOrders ==
    /\ Len(tradingCalls) < MaxTradingCalls
    /\ trading' = cancelOrderStart(trading)
    /\ tradingCalls' = Append(tradingCalls, TradingCall("cancelAllOrders", "none"))
    /\ last' = [op |-> "cancelAllOrders", case |-> "start"]
    /\ UNCHANGED <<coreVars, loader, auth, authCalls, hook>>

CancelAllOrdersSettle ==
    \E i \in 1..Len(tradingCalls), thrown \in {"null", "Cancel failed"} :
        /\ tradingCalls[i].op = "cancelAllOrders"
        /\ trading' = cancelAllOrdersSettled(trading, thrown)
        /\ tradingCalls' = SpliceRemove(tradingCalls, i)
        /\ last' = [op |-> "cancelAllOrders",
                    case |-> IF thrown = "null" THEN "true" ELSE "false"]
        /\ UNCHANGED <<coreVars, loader, auth, authCalls, hook>>

PlaceOrder ==
    /\ Len(tradingCalls) < MaxTradingCalls
    /\ trading' = placeOrderStart(trading)
    /\ tradingCalls' = Append(tradingCalls, TradingCall("placeOrder", "none"))
    /\ last' = [op |-> "placeOrder", case |-> "start"]
    /\ UNCHANGED <<coreVars, loader, auth, authCalls, hook>>

PlaceOrderSettle ==
    \E i \in 1..Len(tradingCalls), outcome \in PlaceOutcomes :
        /\ tradingCalls[i].op = "placeOrder"
        /\ trading' = placeOrderSettled(trading, outcome)
        /\ tradingCalls' = SpliceRemove(tradingCalls, i)
        /\ last' = [op |-> "placeOrder",
                    case |-> IF outcome.throws = "null" /\ outcome.success
                             THEN "true" ELSE "false"]
        /\ UNCHANGED <<coreVars, loader, auth, authCalls, hook>>

ClearErrors ==
    /\ trading.orderError # "null" \/ trading.cancelError # "null"
    /\ trading' = clearErrors(trading)
    /\ last' = [op |-> "clearErrors", case |-> "none"]
    /\ UNCHANGED <<coreVars, loader, auth, authCalls, tradingCalls, hook>>

NextTrading ==
    \/ CancelOrder
    \/ CancelOrderSettle
    \/ CancelAllOrders
    \/ CancelAllOrdersSettle
    \/ PlaceOrder
    \/ PlaceOrderSettle
    \/ ClearErrors

SpecTrading == Init /\ [][NextTrading]_vars

\* ------------------------------------------------------------------ claims
\* A ladder strictly sorted by parsed price: descending for bids ("BUY"),
\* ascending for asks; strictness excludes two levels of equal price.
StrictlySorted(levels, side) ==
    \A i \in 1..(Len(levels) - 1) :
        IF side = "BUY"
        THEN NumGt(parseFloat(levels[i].price), parseFloat(levels[i + 1].price))
        ELSE NumLt(parseFloat(levels[i].price), parseFloat(levels[i + 1].price))

\* The same without strictness.
Ordered(levels, side) ==
    \A i \in 1..(Len(levels) - 1) :
        IF side = "BUY"
        THEN ~NumLt(parseFloat(levels[i].price), parseFloat(levels[i + 1].price))
        ELSE ~NumGt(parseFloat(levels[i].price), parseFloat(levels[i + 1].price))

BookSorted(book) ==
    StrictlySorted(book.bids, "BUY") /\ StrictlySorted(book.asks, "SELL")

HasPrice(levels, price) == \E i \in 1..Len(levels) : levels[i].price = price

IsZero(size) == NumEq(parseFloat(size), 0)

\* new is old with the element at index i taken out.
RemovedAt(old, new, i) ==
    /\ Len(new) = Len(old) - 1
    /\ \A j \in 1..(i - 1) : new[j] = old[j]
    /\ \A j \in i..Len(new) : new[j] = old[j + 1]

\* new is old with lvl put in at index k.
InsertedAt(old, new, k, lvl) ==
    /\ Len(new) = Len(old) + 1
    /\ new[k] = lvl
    /\ \A j \in 1..(k - 1) : new[j] = old[j]
    /\ \A j \in (k + 1)..Len(new) : new[j] = old[j - 1]

\* The ladder a delta does not address.
otherLevels(book, delta) ==
    IF delta.side = "BUY" THEN book.asks ELSE book.bids

\* C1: every applyDelta call on a book whose two ladders are strictly sorted
\* by numeric price (bids descending, asks ascending, no repeated price)
\* leaves both ladders strictly sorted by numeric price.
C1_DeltaKeepsStrictOrder ==
    \A d \in Deltas : \A now \in ClockReads(d.timestamp) :
        (d.asset_id \in DOMAIN orderBooks /\ BookSorted(orderBooks[d.asset_id]))
            => BookSorted(applyDelta(orderBooks, d, now)[d.asset_id])

\* C2: setSnapshot for an instrument whose stored lastUpdate is newer than
\* the snapshot's timestamp is rejected: the stored book is left unchanged.
C2_OlderSnapshotRejected ==
    \A s \in Snapshots : \A now \in ClockReads(s.timestamp) :
        ( /\ s.asset_id \in DOMAIN orderBooks
          /\ s.timestamp # 0
          /\ orderBooks[s.asset_id].lastUpdate > s.timestamp )
            => setSnapshot(orderBooks, s.asset_id, s, now)[s.asset_id]
                 = orderBooks[s.asset_id]

\* C3: in every reachable state of the store no stored ladder holds a level
\* whose size is zero.
C3_NoZeroSizeLevel ==
    \A a \in DOMAIN orderBooks :
        /\ \A i \in 1..Len(orderBooks[a].bids) : ~IsZero(orderBooks[a].bids[i].size)
        /\ \A i \in 1..Len(orderBooks[a].asks) : ~IsZero(orderBooks[a].asks[i].size)

\* C4: setSnapshot(a, s) is a full replacement: whatever the store held,
\* afterwards a has an entry whose bids and asks are exactly those of s, and
\* the entries of all other instruments are the ones held before.
C4_SnapshotReplacesBook ==
    \A s \in StoreSnapshots : \A now \in ClockReads(s.timestamp) :
        LET a == s.asset_id
            after == setSnapshot(orderBooks, a, s, now)
        IN /\ DOMAIN after = (DOMAIN orderBooks) \cup {a}
           /\ after[a].bids = s.bids
           /\ after[a].asks = s.asks
           /\ \A b \in (DOMAIN orderBooks) \ {a} : after[b] = orderBooks[b]

\* C4 witness: a snapshot has replaced an existing book while the other
\* instrument holds a book with levels.
C4_Witness ==
    /\ last.op = "setSnapshot"
    /\ last.case \in {"replaced", "replacedByOlder"}
    /\ \E a \in DOMAIN orderBooks, b \in DOMAIN orderBooks :
          /\ a # b
          /\ Len(orderBooks[a].bids) + Len(orderBooks[a].asks) > 0
          /\ Len(orderBooks[b].bids) + Len(orderBooks[b].asks) > 0

C7_ZeroSizeAbsentIsNoOp ==
    \A d \in Deltas : \A now \in ClockReads(d.timestamp) :
        ( /\ d.asset_id \in DOMAIN orderBooks
          /\ IsZero(d.size)
          /\ ~HasPrice(sideLevels(orderBooks[d.asset_id], d), d.price) )
            => applyDelta(orderBooks, d, now)[d.asset_id] = orderBooks[d.asset_id]

\* C7 amended: applyDelta with size zero for a price not present on the
\* target side leaves bids and asks as they were, and sets lastUpdate to the
\* delta's timestamp, or to the clock reading when the delta carries none.
C7_ZeroSizeAbsentKeepsLadders ==
    \A d \in Deltas : \A now \in ClockReads(d.timestamp) :
        ( /\ d.asset_id \in DOMAIN orderBooks
          /\ IsZero(d.size)
          /\ ~HasPrice(sideLevels(orderBooks[d.asset_id], d), d.price) )
            => LET after == applyDelta(orderBooks, d, now)[d.asset_id]
               IN /\ after.bids = orderBooks[d.asset_id].bids
                  /\ after.asks = orderBooks[d.asset_id].asks
                  /\ after.lastUpdate = OrNow(d.timestamp, now)

\* C7 witness: a zero-size delta for an absent price has been applied to a
\* book that holds levels.
C7_Witness ==
    /\ last.op = "applyDelta"
    /\ last.case = "zeroAbsent"
    /\ \E a \in DOMAIN orderBooks :
          Len(orderBooks[a].bids) + Len(orderBooks[a].asks) > 0

\* C8: applyDelta for an instrument without a stored book leaves the whole
\* orderBooks map unchanged: no entry is created for it.
C8_DeltaWithoutBookDropped ==
    \A d \in StoreDeltas : \A now \in ClockReads(d.timestamp) :
        d.asset_id \notin DOMAIN orderBooks
            => applyDelta(orderBooks, d, now) = orderBooks

\* C8 witness: a delta for an instrument without a book has been applied
\* while the other instrument holds a book.
C8_Witness ==
    /\ last.op = "applyDelta"
    /\ last.case = "noBook"
    /\ DOMAIN orderBooks # {}
    /\ DOMAIN orderBooks # AssetIds

\* C9: a malformed snapshot or delta payload (one that lacks asset_id, side,
\* price or size) arriving on the stream leaves the order books unchanged and
\* has no callback invoked for it, while a well-formed message is applied by
\* the provider's callback.
C9_MalformedMessageDropped ==
    /\ \A payload \in EventSnapshots, now \in Times :
          IF MalformedSnapshot(payload)
          THEN /\ deliverSnapshot(orderBooks, callbacks, payload, now) = orderBooks
               /\ invoked(callbacks, "orderbook_snapshot") = {}
          ELSE provider = "listening" =>
                  deliverSnapshot(orderBooks, callbacks, payload, now)
                      = setSnapshot(orderBooks, payload.asset_id, payload, now)
    /\ \A payload \in EventDeltas, now \in Times :
          IF MalformedDelta(payload)
          THEN /\ deliverDelta(orderBooks, callbacks, payload, now) = orderBooks
               /\ invoked(callbacks, "orderbook_delta") = {}
          ELSE provider = "listening" =>
                  deliverDelta(orderBooks, callbacks, payload, now)
                      = applyDelta(orderBooks, payload, now)

\* C10: once the page of an instrument has been torn down, the instrument
\* has no entry in the store until the next snapshot for it arrives: every
\* stored book got its snapshot after the last teardown.
C10_BookDiscardedOnTeardown ==
    \A a \in AssetIds : a \in DOMAIN orderBooks => a \in snapshotted


\* The transitions of the connection state machine.
Transitions ==
    { <<"disconnected", "connecting">>,
      <<"connecting", "connected">>,
      <<"connecting", "reconnecting">>,
      <<"connected", "reconnecting">>,
      <<"reconnecting", "connecting">>,
      <<"reconnecting", "failed">>,
      <<"connecting", "failed">>,
      <<"connected", "failed">>,
      <<"failed", "connecting">> }
    \cup { <<v, "disconnected">> : v \in ConnectionStateValues }

\* C11: for each feed, the connection state the client holds changes only
\* along the transitions of the connection state machine; in particular it
\* never passes from disconnected straight to connected.
C11_ClientStatusFollowsTransitions ==
    [][\A f \in Feeds :
          status'[f] # status[f] => <<status[f], status'[f]>> \in Transitions]_vars

\* C12: whenever a feed reaches Connected, on the first connect and after a
\* reconnect, one subscribe command naming the whole interest set is issued,
\* and while the feed is Connected every instrument of the interest set is
\* subscribed, without a new connect command of the consumer.
C12_ResubscribedOnConnected ==
    [][\A f \in Feeds :
          /\ (feeds'[f].state = "connected" /\ feeds[f].state # "connected")
                => feeds'[f].command = Subscribe(feeds'[f].interest)
          /\ feeds'[f].state = "connected"
                => feeds'[f].subscribed = feeds'[f].interest]_vars

\* A feed is Connected again after a connection loss and its instrument,
\* asked for before the loss, is subscribed.
C12_Witness ==
    /\ last = [op |-> "feedOpen", case |-> "reconnect"]
    /\ feeds.clob.state = "connected"
    /\ feeds.clob.interest = {"a1"}
    /\ feeds.clob.subscribed = {"a1"}

\* C13: the delay scheduled after the n-th consecutive failure since the feed
\* last was Connected (n = 0, 1, 2, ...) is min(base * 2^n, cap) plus a jitter
\* of at most MaxJitter, and the attempt counter is zero whenever the feed is
\* Connected.
C13_BackoffDoublesWithCap ==
    \A f \in Feeds :
        /\ feeds[f].state = "reconnecting" =>
              /\ feeds[f].failures > 0
              /\ feeds[f].delay - Min(Base * 2^(feeds[f].failures - 1), Cap)
                    \in 0..MaxJitter
        /\ feeds[f].state = "connected" => feeds[f].attempt = 0

\* Three consecutive failures: the third is followed by a delay of about 4 s.
C13_Witness ==
    /\ feeds.clob.state = "reconnecting"
    /\ feeds.clob.failures = 3
    /\ feeds.clob.delay \in {4 * Base, 4 * Base + MaxJitter}

\* C14: a connect command the backend fails does not reject to its caller:
\* the promise of connectToRtds / connectToClob is never rejected.
C14_ConnectFailureNotThrown ==
    settled.cmd = "connect" => settled.promise # "rejected"

\* The number of times x occurs in a sequence.
Count(seq, x) == Cardinality({ i \in 1..Len(seq) : seq[i] = x })

\* The ids of the handlers registered with listen().
ListenerIds == { listeners[j].id : j \in 1..Len(listeners) }

\* C15: for an incoming event of class E, every callback registered for E is
\* invoked, in registration order and once each, and no callback registered
\* for another class is.
C15_EveryCallbackInvokedInOrder ==
    \A type \in BridgeEvents, payload \in BridgePayloads :
        eventSource = "open" =>
            sseInvocations(callbacks, eventSource, type, payload)
                = IF type \in DOMAIN callbacks THEN callbacks[type] ELSE << >>

\* C16: once an unsubscribe handle has been called, an event emitted
\* afterwards invokes none of the callbacks that handle registered: on the
\* SSE subscriber a callback of the handle is invoked only for a handle that
\* is still live and registered the same pair, on the Tauri subscriber none of
\* the handle's listeners is left.
C16_NoInvocationAfterUnsubscribe ==
    \A h \in 1..Len(handles) :
        handles[h].called =>
            /\ \A i \in 1..Len(handles[h].pairs), payload \in BridgePayloads :
                  LET p == handles[h].pairs[i]
                  IN Count(sseInvocations(callbacks, eventSource, p.name, payload),
                           p.callback) > 0
                        => \E g \in 1..Len(handles) :
                              /\ ~handles[g].called
                              /\ p \in Members(handles[g].pairs)
            /\ ~handles[h].failed =>
                  \A i \in 1..Len(handles[h].ids) : handles[h].ids[i] \notin ListenerIds

\* A handle was called, another is live, and an event that came in afterwards
\* was delivered to the live one's callback on both transports.
C16_Witness ==
    /\ last.op = "emit"
    /\ \E h \in 1..Len(handles) : handles[h].called /\ ~handles[h].failed
    /\ \E g \in 1..Len(handles) : ~handles[g].called
    /\ delivered.sse # << >>
    /\ delivered.tauri # << >>

\* C17: a second or later call of an unsubscribe handle changes nothing in
\* the registered callbacks or in the connection.
C17_UnsubscribeIdempotent ==
    \A h \in 1..Len(handles) :
        handles[h].called =>
            /\ sseHandle(callbacks, handles[h].pairs) = callbacks
            /\ sseHandleSource(callbacks, eventSource, handles[h].pairs) = eventSource
            /\ ~handles[h].failed => tauriHandle(listeners, handles[h].ids) = listeners

\* C18: when the registration of a pair of a subscribeMany batch fails, no
\* pair of the batch remains registered.
C18_SubscribeManyAtomic ==
    \A h \in 1..Len(handles) :
        handles[h].failed =>
            \A i \in 1..Len(handles[h].ids) : handles[h].ids[i] \notin ListenerIds

\* C19: after the effect of WebSocketProvider is torn down, none of its
\* callbacks is registered or invoked for an event, whenever the teardown
\* came relative to the asynchronous set-up.
C19_NoSubscriptionAfterTeardown ==
    provider \in {"unmounted", "tornDownEarly", "leaked"} =>
        \A e \in EventNames : ProviderCallback(e) \notin invoked(callbacks, e)

\* C20: driven by the same calls, with no registration failing, the SSE
\* subscriber and the Tauri subscriber invoke the same callbacks the same
\* number of times for every incoming event.
C20_TransportsInterchangeable ==
    (\A h \in 1..Len(handles) : ~handles[h].failed) =>
        \A type \in BridgeEvents, payload \in BridgePayloads :
            \A p \in SubscribePairs \cup UNION { Members(b) : b \in SubscribeBatches } :
                Count(sseInvocations(callbacks, eventSource, type, payload), p.callback)
                    = Count(tauriInvocations(listeners, type), p.callback)

\* C22: isConnecting is true while a connect command is in flight and false
\* once the connect commands have settled, also when two of them overlap.
C22_IsConnectingWhileInFlight ==
    isConnecting = (\E i \in 1..Len(calls) : calls[i].cmd = "connect")

\* The levels of a ladder overridden by a delta: the level of the delta's
\* price is replaced by the delta's, or dropped when the size is zero.
override(levels, delta) ==
    { l \in levels : l.price # delta.price }
        \cup (IF IsZero(delta.size) THEN {} ELSE {Level(delta.price, delta.size)})

C27_SubscriptionsIndependent ==
    \A g \in 1..Len(handles) :
        ~handles[g].called =>
            /\ \A i \in 1..Len(handles[g].pairs) :
                  handles[g].pairs[i].callback
                      \in invoked(callbacks, handles[g].pairs[i].name)
            /\ ~handles[g].failed =>
                  \A i \in 1..Len(handles[g].ids) : handles[g].ids[i] \in ListenerIds

\* C28: the SSE connection is open exactly when at least one callback is
\* registered.
C28_OpenIffSubscribed ==
    (eventSource = "open") <=> (getTotalSubscribers(callbacks) > 0)

\* The connection was closed with the last callback and a later subscribe
\* has reopened it.
C28_Witness ==
    /\ last.op = "subscribe"
    /\ Len(handles) = 2
    /\ handles[1].called
    /\ ~handles[2].called
    /\ eventSource = "open"

\* What the page wants of a feed: the displayed market's instruments, or
\* nothing once no market is displayed.
intent ==
    IF market = "none" THEN [cmd |-> "disconnect", tokens |-> {}]
    ELSE [cmd |-> "connect", tokens |-> tokenIds(market)]

\* C30: the commands handed to the backend for a feed follow the displayed
\* market: a connect is only ever followed by a disconnect, and once no
\* command of the feed waits to be issued the last one issued is the connect
\* for the displayed market, or a disconnect (or none yet) when no market is
\* displayed.
C30_CommandsFollowMarket ==
    /\ [](\A f \in Feeds :
             (\A i \in 1..Len(calls) : calls[i].feed = f => calls[i].pc # "getBackend")
                 => \/ issued[f] = intent
                    \/ market = "none" /\ issued[f] = NoCommand)
    /\ [][\A f \in Feeds :
             issued[f].cmd = "connect" /\ issued'[f] # issued[f]
                 => issued'[f].cmd = "disconnect"]_vars

\* The connect for a second market has been issued while the disconnect that
\* preceded it is still in flight.
C30_Witness ==
    /\ market = "m2"
    /\ Len(calls) = 4
    /\ calls[1] = [cmd |-> "disconnect", feed |-> "clob", tokens |-> {}, pc |-> "invoke"]
    /\ calls[3].pc = "invoke"
    /\ issued.clob = [cmd |-> "connect", tokens |-> {"a2"}]

\* C21: between two resets every call of getBackend, and every call of
\* getEventSubscriber, resolves to the same instance, and at most one instance
\* of each is constructed.
C21_Singletons ==
    \A kind \in Kinds :
        /\ loader.constructed[kind] <= 1
        /\ Cardinality(loader.resolved[kind]) <= 1

\* C23: an event delivered to the mounted hook runs the callback of the most
\* recent render and no other, and a render that only changes the callback
\* makes no subscription and removes none.
C23_LatestCallbackInvoked ==
    /\ [](hook.mounted /\ last.op = "hookEmit" => hook.invoked \subseteq {hook.callbackRef})
    /\ [][(/\ hook.mounted
           /\ hook'.mounted
           /\ hook'.eventName = hook.eventName
           /\ hook'.callbackRef # hook.callbackRef)
              => /\ callbacks' = callbacks
                 /\ hook'.subscribes = hook.subscribes
                 /\ hook'.effects = hook.effects]_vars

\* An event has run the callback of a render later than the one that
\* subscribed.
C23_Witness ==
    /\ last.op = "hookEmit"
    /\ hook.mounted
    /\ hook.invoked = {hook.callbackRef}
    /\ hook.effects[Len(hook.effects)].render < hook.callbackRef
    /\ hook.subscribes = 1

\* C24: when logout() has completed successfully the store holds the
\* unauthenticated status the backend answered, isLoading is false, balance
\* is null and positions and orders are empty.
C24_LogoutClearsPortfolio ==
    last = [op |-> "logout", case |-> "resolved"] =>
        /\ auth.status = LoggedOut
        /\ auth.isLoading = FALSE
        /\ auth.balance = "null"
        /\ auth.positions = << >>
        /\ auth.orders = << >>

\* logout() has completed while another action of the store, started in the
\* authenticated session, is still in flight.
C24_Witness ==
    /\ last = [op |-> "logout", case |-> "resolved"]
    /\ \E i \in 1..Len(authCalls) :
          authCalls[i].op = "fetchPortfolio" /\ authCalls[i].authenticated
    /\ auth.portfolioLoading

\* C29: whenever the status is unauthenticated, balance is null and orders
\* is empty.
C29_NoPortfolioWhenLoggedOut ==
    ~auth.status.isAuthenticated => auth.balance = "null" /\ auth.orders = << >>

\* C25: however the backend call of a cancelOrder(id) in flight settles, the
\* call resolves to true exactly when the result lists id in canceled; when
\* it resolves to false cancelError is set; and isCancelling is false once it
\* has settled.
C25_CancelOrderReturn ==
    \A i \in 1..Len(tradingCalls), outcome \in CancelOutcomes :
        tradingCalls[i].op = "cancelOrder" =>
            LET orderId == tradingCalls[i].orderId
                settledStore == cancelOrderSettled(trading, orderId, outcome)
                returned == cancelOrderReturn(orderId, outcome)
            IN /\ returned <=> (outcome.throws = "null" /\ orderId \in outcome.canceled)
               /\ ~returned => settledStore.cancelError # "null"
               /\ settledStore.isCancelling = FALSE
====
